---- MODULE Spec2Model ----
(***************************************************************************)
(* Deployment session tracing of nexlayer-mcp: the in-memory trace store   *)
(* (DeploymentTraceManager, utils/deployment-trace.ts), and the            *)
(* nexlayer_deploy handler and dispatch wrapper that drive it, the logger  *)
(* (NexlayerLogger, utils/logger.ts) and the image build                   *)
(* (buildAndPushImages).                                                   *)
(*                                                                         *)
(* Modelling decisions                                                     *)
(*  - The store's Map<string, DeploymentTrace> is the sequence `traces` of *)
(*    its entries in insertion order (a JavaScript Map iterates in         *)
(*    insertion order, Map.set on an existing key keeps the key's place).  *)
(*  - Every store operation is synchronous; it reads the clock `now` once  *)
(*    (all Date reads of one call fall in the same millisecond).  The      *)
(*    clock never runs backwards; Tick advances it between calls.          *)
(*  - An optional field that is undefined holds NoNum / NoStr / NoTime.    *)
(*  - MAX_TRACES is 100 in the source.  cleanupOldTraces is written for    *)
(*    any value of it; the model checks the algorithm at a small value so  *)
(*    that every store at, below and above the cap is explored.            *)
(*  - RATE_LIMIT is 100 in the source (utils/logger.ts); shouldRateLimit   *)
(*    is written for any value of it and is checked at a small one, with   *)
(*    the window at its real length.                                       *)
(***************************************************************************)
EXTENDS Integers, Sequences, FiniteSets, TLC

(***************************************************************************)
(* Bounds of the exploration                                               *)
(***************************************************************************)
MAX_TRACES == 2
\* the clock is explored up to TRACE_TTL + Slack milliseconds
Slack == 1
\* steps per trace in the step-level specification
MaxSteps == 2
\* log lines per window of the logger
RATE_LIMIT == 2

TRACE_TTL == 24 * 60 * 60 * 1000

\* session identifiers in play: one more than the store keeps
Sessions == 1..(MAX_TRACES + 1)
MaxTime == TRACE_TTL + Slack
\* the clock values explored: the first milliseconds, and those one TTL later
Times == (0..Slack) \cup (TRACE_TTL..MaxTime)
Delays == {1, TRACE_TTL}

NoNum == -1
NoStr == "undefined"

StepStatus == {"pending", "in_progress", "success", "failed", "skipped"}
TerminalStatus == {"success", "failed", "skipped"}
Tools == {"build", "nexlayer_deploy"}
AppNames == {"my-app"}

(***************************************************************************)
(* Date: new Date(ms).toISOString() and new Date(iso).getTime().  The ISO  *)
(* text carries whole seconds and a three-digit millisecond field.         *)
(***************************************************************************)
toISOString_WholeSeconds(ms) == [sec |-> ms \div 1000, msec |-> 0]
toISOString(ms) == [sec |-> ms \div 1000, msec |-> ms % 1000]
getTime(iso) == iso.sec * 1000 + iso.msec
NoTime == [sec |-> -1, msec |-> 0]

VARIABLES
    now,      \* Date.now()
    traces,   \* DeploymentTraceManager.traces, entries in insertion order
    threw,    \* whether the last store call threw "Deployment trace not found"
    noop,     \* history: whether the last store call was an updateStep that
              \*   found no trace or no step of the tool
    hist,     \* history per session: calls made on the current trace
    starts,   \* history: the identifiers given to startTrace so far (ids),
              \*   whether they were pairwise distinct, and whether a cleanup
              \*   of those calls met a trace older than the TTL
    answer,   \* history: what the last store call returned when it was a
              \*   query (the call, and the traces or summaries returned; an
              \*   absent trace or summary is the empty sequence)
    inv,      \* the nexlayer_deploy invocations made through registerTool:
              \*   where each stands, its session identifier, the wrapper's
              \*   log calls, and what the caller of the wrapper got
    logger,   \* one NexlayerLogger: its rateLimitMap entry, and what it has
              \*   written to stderr
    build     \* one call of buildAndPushImages: its child process, its
              \*   timer and the promise it returned

vars == <<now, traces, threw, noop, hist, starts, answer, inv, logger, build>>

(***************************************************************************)
(* Map helpers                                                             *)
(***************************************************************************)
Keys(T) == {T[i].sessionId : i \in 1..Len(T)}
Has(T, sessionId) == sessionId \in Keys(T)
IndexOf_First(T, sessionId) == 1
IndexOf(T, sessionId) == CHOOSE i \in 1..Len(T) : T[i].sessionId = sessionId
MapGet(T, sessionId) == T[IndexOf(T, sessionId)]
MapSet_Appends(T, sessionId, trace) == Append(T, trace)
MapSet(T, sessionId, trace) ==
    IF Has(T, sessionId)
    THEN [T EXCEPT ![IndexOf(T, sessionId)] = trace]
    ELSE Append(T, trace)
Range(q) == {q[i] : i \in 1..Len(q)}
MapDeleteAll(T, ids) == SelectSeq(T, LAMBDA e : e.sessionId \notin Range(ids))

\* Array.prototype.sort with a comparator (a, b) => key(a) - key(b); keys[i]
\* is the key of q[i].  The sort is stable: entries with equal keys keep
\* their order.  Rank is the place entry i takes in the sorted array.
Rank_TiesReversed(keys, i) ==
    Cardinality({j \in 1..Len(keys) :
                   keys[j] < keys[i] \/ (keys[j] = keys[i] /\ j > i)}) + 1
Rank(keys, i) ==
    Cardinality({j \in 1..Len(keys) :
                   keys[j] < keys[i] \/ (keys[j] = keys[i] /\ j < i)}) + 1
StableSort(q, keys) ==
    [p \in 1..Len(q) |-> q[CHOOSE i \in 1..Len(q) : Rank(keys, i) = p]]
Slice(q, n) == SubSeq(q, 1, IF n < Len(q) THEN n ELSE Len(q))

(***************************************************************************)
(* The store: DeploymentTraceManager                                       *)
(***************************************************************************)
\* the comparator of the eviction sort: a.startTime - b.startTime
OldestFirstKey_Newest(trace) == 0 - getTime(trace.startTime)
OldestFirstKey(trace) == getTime(trace.startTime)

\* this.traces.size - tracesToDelete.length - this.MAX_TRACES
ExcessCount_OneMore(size, toDelete) == size - toDelete - MAX_TRACES + 1
ExcessCount(size, toDelete) == size - toDelete - MAX_TRACES

\* traceAge > this.TRACE_TTL
IsExpired_AtTTL(trace, t) == t - getTime(trace.startTime) >= TRACE_TTL
IsExpired(trace, t) == t - getTime(trace.startTime) > TRACE_TTL

cleanupOldTraces_LateCap(T, t) ==
    IF Len(T) <= MAX_TRACES + 1 THEN T
    ELSE
      LET expired == SelectSeq(T, LAMBDA e : IsExpired(e, t))
          ttlDelete == [i \in 1..Len(expired) |-> expired[i].sessionId]
          sortedTraces == StableSort(T, [i \in 1..Len(T) |-> OldestFirstKey(T[i])])
          excessCount == ExcessCount(Len(T), Len(ttlDelete))
          tracesToDelete ==
              IF Len(T) - Len(ttlDelete) > MAX_TRACES
              THEN ttlDelete \o [i \in 1..excessCount |-> sortedTraces[i].sessionId]
              ELSE ttlDelete
      IN MapDeleteAll(T, tracesToDelete)
cleanupOldTraces(T, t) ==
    IF Len(T) <= MAX_TRACES THEN T
    ELSE
      LET expired == SelectSeq(T, LAMBDA e : IsExpired(e, t))
          ttlDelete == [i \in 1..Len(expired) |-> expired[i].sessionId]
          sortedTraces == StableSort(T, [i \in 1..Len(T) |-> OldestFirstKey(T[i])])
          excessCount == ExcessCount(Len(T), Len(ttlDelete))
          tracesToDelete ==
              IF Len(T) - Len(ttlDelete) > MAX_TRACES
              THEN ttlDelete \o [i \in 1..excessCount |-> sortedTraces[i].sessionId]
              ELSE ttlDelete
      IN MapDeleteAll(T, tracesToDelete)

\* metadata: DeploymentTrace['metadata'] = {}
NoMeta == [userId |-> NoStr, clientType |-> NoStr, mcpVersion |-> NoStr]

NewTraceWith(sessionId, repoUrl, metadata, t) ==
    [sessionId |-> sessionId,
     repoUrl |-> repoUrl,
     startTime |-> toISOString(t),
     status |-> "in_progress",
     endTime |-> NoTime,
     totalDuration |-> NoNum,
     applicationName |-> NoStr,
     steps |-> <<>>,
     metadata |-> metadata]

\* the trace of startTrace(sessionId): no repoUrl, the default metadata
NewTrace(sessionId, t) == NewTraceWith(sessionId, NoStr, NoMeta, t)

startTraceWith(T, sessionId, repoUrl, metadata, t) ==
    cleanupOldTraces(MapSet(T, sessionId, NewTraceWith(sessionId, repoUrl, metadata, t)), t)

\* startTrace(sessionId)
startTrace_Sweeps(T, sessionId, t) ==
    cleanupOldTraces(SelectSeq(MapSet(T, sessionId, NewTrace(sessionId, t)),
                               LAMBDA e : ~IsExpired(e, t)), t)
startTrace(T, sessionId, t) ==
    cleanupOldTraces(MapSet(T, sessionId, NewTrace(sessionId, t)), t)

\* { ...a, ...b }: a field of b that is present overwrites the field of a
Spread(a, b) ==
    [tool |-> a.tool,
     status |-> IF b.status # NoStr THEN b.status ELSE a.status,
     timestamp |-> a.timestamp,
     duration |-> IF b.duration # NoNum THEN b.duration ELSE a.duration,
     error |-> IF b.error # NoStr THEN b.error ELSE a.error]

NoFields == [status |-> NoStr, duration |-> NoNum, error |-> NoStr]

\* trace.steps.push(step)
Push_Front(steps, step) == <<step>> \o steps
Push(steps, step) == Append(steps, step)

\* "Update trace status based on step status"
FailOnStep_Recovers(trace, status, t) ==
    IF status = "failed"
    THEN [trace EXCEPT !.status = "failed",
                       !.endTime = toISOString(t),
                       !.totalDuration = t - getTime(trace.startTime)]
    ELSE IF status = "success" THEN [trace EXCEPT !.status = "in_progress"]
    ELSE trace
FailOnStep(trace, status, t) ==
    IF status = "failed"
    THEN [trace EXCEPT !.status = "failed",
                       !.endTime = toISOString(t),
                       !.totalDuration = t - getTime(trace.startTime)]
    ELSE trace

addStep_StatusOnly(T, sessionId, tool, status, data, t) ==
    LET trace == MapGet(T, sessionId)
        step == Spread([tool |-> tool, status |-> status,
                        timestamp |-> toISOString(t),
                        duration |-> NoNum, error |-> NoStr], data)
        pushed == [trace EXCEPT !.steps = Push(@, step)]
    IN [T EXCEPT ![IndexOf(T, sessionId)] =
           IF status = "failed" THEN [pushed EXCEPT !.status = "failed"] ELSE pushed]
\* precondition: Has(T, sessionId); otherwise the call throws
addStep(T, sessionId, tool, status, data, t) ==
    LET trace == MapGet(T, sessionId)
        step == Spread([tool |-> tool, status |-> status,
                        timestamp |-> toISOString(t),
                        duration |-> NoNum, error |-> NoStr], data)
        pushed == [trace EXCEPT !.steps = Push(@, step)]
    IN [T EXCEPT ![IndexOf(T, sessionId)] = FailOnStep(pushed, status, t)]

\* steps.findLastIndex(step => step.tool === toolName), 0 for "not found"
FindLastIndex_First(steps, toolName) ==
    LET hits == {i \in 1..Len(steps) : steps[i].tool = toolName}
    IN IF hits = {} THEN 0 ELSE CHOOSE i \in hits : \A j \in hits : j >= i
FindLastIndex(steps, toolName) ==
    LET hits == {i \in 1..Len(steps) : steps[i].tool = toolName}
    IN IF hits = {} THEN 0 ELSE CHOOSE i \in hits : \A j \in hits : j <= i

\* !step.duration: undefined and 0 are both falsy
HasNoDuration(step) == step.duration = NoNum \/ step.duration = 0

updateStep_FromTraceStart(T, sessionId, toolName, updates, t) ==
    IF ~Has(T, sessionId) THEN T
    ELSE
      LET trace == MapGet(T, sessionId)
          stepIndex == FindLastIndex(trace.steps, toolName)
      IN IF stepIndex = 0 THEN T
         ELSE
           LET step == trace.steps[stepIndex]
               upd == IF updates.status # NoStr /\ updates.status \in TerminalStatus
                         /\ HasNoDuration(step)
                      THEN [updates EXCEPT !.duration = t - getTime(trace.startTime)]
                      ELSE updates
           IN [T EXCEPT ![IndexOf(T, sessionId)].steps[stepIndex] = Spread(step, upd)]
updateStep(T, sessionId, toolName, updates, t) ==
    IF ~Has(T, sessionId) THEN T
    ELSE
      LET trace == MapGet(T, sessionId)
          stepIndex == FindLastIndex(trace.steps, toolName)
      IN IF stepIndex = 0 THEN T
         ELSE
           LET step == trace.steps[stepIndex]
               upd == IF updates.status # NoStr /\ updates.status \in TerminalStatus
                         /\ HasNoDuration(step)
                      THEN [updates EXCEPT !.duration = t - getTime(step.timestamp)]
                      ELSE updates
           IN [T EXCEPT ![IndexOf(T, sessionId)].steps[stepIndex] = Spread(step, upd)]

\* if (applicationName): undefined and the empty string are both falsy
Truthy_Always(str) == TRUE
Truthy(str) == str \notin {NoStr, ""}

\* precondition: Has(T, sessionId); otherwise the call throws
completeTrace_KeepsFailed(T, sessionId, status, applicationName, t) ==
    LET trace == MapGet(T, sessionId)
        done == [trace EXCEPT !.status = IF @ = "failed" THEN @ ELSE status,
                              !.endTime = toISOString(t),
                              !.totalDuration = t - getTime(trace.startTime)]
    IN [T EXCEPT ![IndexOf(T, sessionId)] =
          IF Truthy(applicationName)
          THEN [done EXCEPT !.applicationName = applicationName]
          ELSE done]
completeTrace(T, sessionId, status, applicationName, t) ==
    LET trace == MapGet(T, sessionId)
        done == [trace EXCEPT !.status = status,
                              !.endTime = toISOString(t),
                              !.totalDuration = t - getTime(trace.startTime)]
    IN [T EXCEPT ![IndexOf(T, sessionId)] =
          IF Truthy(applicationName)
          THEN [done EXCEPT !.applicationName = applicationName]
          ELSE done]

CountStatus_Any(steps, status) == Len(steps)
\* steps.filter(step => step.status === status).length
CountStatus(steps, status) ==
    Len(SelectSeq(steps, LAMBDA step : step.status = status))

\* steps.find(step => step.status === 'failed')?.tool
FailedStep_Last(steps) ==
    LET hits == {k \in 1..Len(steps) : steps[k].status = "failed"}
    IN IF hits = {} THEN NoStr
       ELSE steps[CHOOSE k \in hits : \A j \in hits : j <= k].tool
FailedStep(steps) ==
    LET hits == {k \in 1..Len(steps) : steps[k].status = "failed"}
    IN IF hits = {} THEN NoStr
       ELSE steps[CHOOSE k \in hits : \A j \in hits : k <= j].tool

\* trace.status === 'in_progress' ? 'in_progress'
\*                                : (failureCount > 0 ? 'failed' : 'success')
SummaryStatus_Explicit(trace, failureCount) == trace.status
SummaryStatus(trace, failureCount) ==
    IF trace.status = "in_progress" THEN "in_progress"
    ELSE IF failureCount > 0 THEN "failed" ELSE "success"

\* what getTraceSummary returns for a missing trace
NoSummary == "undefined"

getTraceSummary(T, sessionId) ==
    IF ~Has(T, sessionId) THEN NoSummary
    ELSE
      LET trace == MapGet(T, sessionId)
          successCount == CountStatus(trace.steps, "success")
          failureCount == CountStatus(trace.steps, "failed")
          failedStep == FailedStep(trace.steps)
      IN [sessionId |-> trace.sessionId,
          applicationName |-> trace.applicationName,
          status |-> SummaryStatus(trace, failureCount),
          duration |-> trace.totalDuration,
          failedStep |-> failedStep,
          stepCount |-> Len(trace.steps),
          successCount |-> successCount,
          failureCount |-> failureCount]

\* sort((a, b) => b.startTime - a.startTime).slice(0, limit)
getRecentTraces_OldestFirst(T, limit) ==
    Slice(StableSort(T, [i \in 1..Len(T) |-> getTime(T[i].startTime)]), limit)
getRecentTraces(T, limit) ==
    Slice(StableSort(T, [i \in 1..Len(T) |-> 0 - getTime(T[i].startTime)]), limit)

\* getRecentTraces(limit).map(trace => getTraceSummary(trace.sessionId))
\*     .filter(Boolean): a summary is undefined when the trace is missing
getTraceSummaries_StoreOrder(T, limit) ==
    LET found == Slice(T, limit)
    IN [i \in 1..Len(found) |-> getTraceSummary(T, found[i].sessionId)]
getTraceSummaries(T, limit) ==
    LET recent == getRecentTraces(T, limit)
        found == SelectSeq(recent, LAMBDA trace : Has(T, trace.sessionId))
    IN [i \in 1..Len(found) |-> getTraceSummary(T, found[i].sessionId)]

(***************************************************************************)
(* History variables (not program state)                                   *)
(***************************************************************************)
\* lastEvent: the most recent call on the current trace that assigns
\*   trace.status ("none" right after startTrace); added: the tools of the
\*   addStep calls that returned, in call order
\*   completed: the status given to the latest completeTrace call ("none"
\*   when there was none)
HistInit == [lastEvent |-> "none", completed |-> "none", added |-> <<>>]

\* concurrent tool invocations: enough of them to fill the store and more
Invocations == 1..(MAX_TRACES + 1)
InvIdle == [pc |-> "idle", sessionId |-> 0, logs |-> <<>>, result |-> "none",
            completes |-> 0]

NoAnswer == [call |-> "none", value |-> <<>>]

\* a promise that is still pending
Pending == <<>>

\* buildAndPushImages before the build process is spawned
\*   pc:      "idle", then "spawned"
\*   timeout: options.timeout; elapsed: milliseconds since the spawn
\*   timer:   the setTimeout timer: "none", "armed", "fired" or "cleared"
\*   promise: Pending, or the one value the promise was resolved with
\*   signals: what child.kill has sent
\*   closed, errored: whether 'close' and 'error' have been emitted
\*   events:  history, the events in the order their callbacks ran, each
\*            with the exit code and output it came with
BuildInit ==
    [pc |-> "idle", timeout |-> 0, elapsed |-> 0, timer |-> "none",
     promise |-> Pending, signals |-> <<>>, closed |-> FALSE, errored |-> FALSE,
     events |-> <<>>]

\* a NexlayerLogger after construction: rateLimitMap is empty; nothing has
\* been written
\*   rateLimit: rateLimitMap.get(loggerName), <<>> when the map has no entry
\*   written:   Date.now() of each line written with a level below 'critical'
\*   out:       the latest line written, with the data the call was given
\*   wrote:     whether the latest log call wrote a line
LoggerInit == [rateLimit |-> <<>>, written |-> <<>>, out |-> <<>>, wrote |-> FALSE]

Init ==
    /\ now = 0
    /\ traces = <<>>
    /\ threw = FALSE
    /\ noop = FALSE
    /\ hist = [s \in Sessions |-> HistInit]
    /\ starts = [ids |-> {}, distinct |-> TRUE, ttl |-> FALSE]
    /\ answer = NoAnswer
    /\ inv = [i \in Invocations |-> InvIdle]
    /\ logger = LoggerInit
    /\ build = BuildInit

(***************************************************************************)
(* Actions: one per store call, plus the passage of time                   *)
(***************************************************************************)
\* getTrace(sessionId)?.steps, none when the trace is missing
StepsOf(sessionId) ==
    IF Has(traces, sessionId) THEN MapGet(traces, sessionId).steps ELSE <<>>

Tick(d) ==
    /\ now + d \in Times
    /\ now' = now + d
    /\ UNCHANGED <<traces, threw, noop, hist, starts, answer, inv, logger, build>>

\* the cleanup of startTrace(sessionId) runs over the cap and meets a trace
\* older than the TTL
FoundExpired(sessionId) ==
    LET set == MapSet(traces, sessionId, NewTrace(sessionId, now))
    IN Len(set) > MAX_TRACES /\ \E i \in 1..Len(set) : IsExpired(set[i], now)

StartTrace(sessionId) ==
    /\ traces' = startTrace(traces, sessionId, now)
    /\ threw' = FALSE
    /\ noop' = FALSE
    /\ hist' = [s \in Sessions |->
                  IF s = sessionId \/ s \notin Keys(traces') THEN HistInit ELSE hist[s]]
    /\ starts' = IF starts.distinct /\ sessionId \notin starts.ids
                 THEN [starts EXCEPT !.ids = @ \cup {sessionId},
                                     !.ttl = @ \/ FoundExpired(sessionId)]
                 ELSE [ids |-> {}, distinct |-> FALSE, ttl |-> FALSE]
    /\ answer' = NoAnswer
    /\ UNCHANGED <<now, inv, logger, build>>

\* startTrace(sessionId, repoUrl, metadata)
StartTraceWith(sessionId, repoUrl, metadata) ==
    /\ traces' = startTraceWith(traces, sessionId, repoUrl, metadata, now)
    /\ threw' = FALSE
    /\ noop' = FALSE
    /\ hist' = [s \in Sessions |->
                  IF s = sessionId \/ s \notin Keys(traces') THEN HistInit ELSE hist[s]]
    /\ starts' = IF starts.distinct /\ sessionId \notin starts.ids
                 THEN [starts EXCEPT !.ids = @ \cup {sessionId},
                                     !.ttl = @ \/ FoundExpired(sessionId)]
                 ELSE [ids |-> {}, distinct |-> FALSE, ttl |-> FALSE]
    /\ answer' = NoAnswer
    /\ UNCHANGED <<now, inv, logger, build>>

AddStep_CreatesTrace(sessionId, tool, status, data) ==
    /\ IF Has(traces, sessionId)
       THEN /\ traces' = addStep(traces, sessionId, tool, status, data, now)
            /\ threw' = FALSE
            /\ hist' = [hist EXCEPT ![sessionId] =
                          [lastEvent |-> IF status = "failed" THEN "addStepFailed"
                                         ELSE @.lastEvent,
                           completed |-> @.completed,
                           added |-> Append(@.added, tool)]]
       ELSE /\ threw' = TRUE
            /\ traces' = Append(traces, NewTrace(sessionId, now))
            /\ UNCHANGED hist
    /\ noop' = FALSE
    /\ answer' = NoAnswer
    /\ UNCHANGED <<now, starts, inv, logger, build>>
AddStep(sessionId, tool, status, data) ==
    /\ IF Has(traces, sessionId)
       THEN /\ traces' = addStep(traces, sessionId, tool, status, data, now)
            /\ threw' = FALSE
            /\ hist' = [hist EXCEPT ![sessionId] =
                          [lastEvent |-> IF status = "failed" THEN "addStepFailed"
                                         ELSE @.lastEvent,
                           completed |-> @.completed,
                           added |-> Append(@.added, tool)]]
       ELSE /\ threw' = TRUE
            /\ UNCHANGED <<traces, hist>>
    /\ noop' = FALSE
    /\ answer' = NoAnswer
    /\ UNCHANGED <<now, starts, inv, logger, build>>

UpdateStep_Throws(sessionId, toolName, updates) ==
    /\ traces' = updateStep(traces, sessionId, toolName, updates, now)
    /\ threw' = (FindLastIndex(StepsOf(sessionId), toolName) = 0)
    /\ noop' = (FindLastIndex(StepsOf(sessionId), toolName) = 0)
    /\ answer' = NoAnswer
    /\ UNCHANGED <<now, hist, starts, inv, logger, build>>
UpdateStep(sessionId, toolName, updates) ==
    /\ traces' = updateStep(traces, sessionId, toolName, updates, now)
    /\ threw' = FALSE
    /\ noop' = (FindLastIndex(StepsOf(sessionId), toolName) = 0)
    /\ answer' = NoAnswer
    /\ UNCHANGED <<now, hist, starts, inv, logger, build>>

CompleteTrace_Restamps(sessionId, status, applicationName) ==
    /\ IF Has(traces, sessionId)
       THEN /\ traces' = [completeTrace(traces, sessionId, status, applicationName, now)
                             EXCEPT ![IndexOf(traces, sessionId)].startTime = toISOString(now)]
            /\ threw' = FALSE
            /\ hist' = [hist EXCEPT ![sessionId].lastEvent =
                          IF status = "failed" THEN "completeFailed" ELSE "completeSuccess",
                                     ![sessionId].completed = status]
       ELSE /\ threw' = TRUE
            /\ UNCHANGED <<traces, hist>>
    /\ noop' = FALSE
    /\ answer' = NoAnswer
    /\ UNCHANGED <<now, starts, inv, logger, build>>
CompleteTrace(sessionId, status, applicationName) ==
    /\ IF Has(traces, sessionId)
       THEN /\ traces' = completeTrace(traces, sessionId, status, applicationName, now)
            /\ threw' = FALSE
            /\ hist' = [hist EXCEPT ![sessionId].lastEvent =
                          IF status = "failed" THEN "completeFailed" ELSE "completeSuccess",
                                     ![sessionId].completed = status]
       ELSE /\ threw' = TRUE
            /\ UNCHANGED <<traces, hist>>
    /\ noop' = FALSE
    /\ answer' = NoAnswer
    /\ UNCHANGED <<now, starts, inv, logger, build>>

\* the queries: each returns a value and assigns nothing
GetTrace(sessionId) ==
    /\ answer' = [call |-> "getTrace",
                  value |-> IF Has(traces, sessionId)
                            THEN <<MapGet(traces, sessionId)>> ELSE <<>>]
    /\ threw' = FALSE
    /\ noop' = FALSE
    /\ UNCHANGED <<now, traces, hist, starts, inv, logger, build>>

GetTraceSummary(sessionId) ==
    /\ answer' = [call |-> "getTraceSummary",
                  value |-> IF Has(traces, sessionId)
                            THEN <<getTraceSummary(traces, sessionId)>> ELSE <<>>]
    /\ threw' = FALSE
    /\ noop' = FALSE
    /\ UNCHANGED <<now, traces, hist, starts, inv, logger, build>>

\* Array.from(this.traces.values()) is a new array: sort orders the copy
GetRecentTraces_SortsStore(limit) ==
    /\ answer' = [call |-> "getRecentTraces", value |-> getRecentTraces(traces, limit)]
    /\ traces' = getRecentTraces(traces, Len(traces))
    /\ threw' = FALSE
    /\ noop' = FALSE
    /\ UNCHANGED <<now, hist, starts, inv, logger, build>>
GetRecentTraces(limit) ==
    /\ answer' = [call |-> "getRecentTraces", value |-> getRecentTraces(traces, limit)]
    /\ threw' = FALSE
    /\ noop' = FALSE
    /\ UNCHANGED <<now, traces, hist, starts, inv, logger, build>>

GetTraceSummaries(limit) ==
    /\ answer' = [call |-> "getTraceSummaries", value |-> getTraceSummaries(traces, limit)]
    /\ threw' = FALSE
    /\ noop' = FALSE
    /\ UNCHANGED <<now, traces, hist, starts, inv, logger, build>>

\* arguments of addStep(data) and updateStep(updates) as the callers give them
DataArgs == {NoFields}
AddStatus == {"in_progress", "success", "failed"}
UpdateArgs == {[NoFields EXCEPT !.status = st] : st \in StepStatus \ {"pending"}}
                 \cup {NoFields}

StepSessions == {1}

(***************************************************************************)
(* Spec: the life of the trace of one session, step by step, all calls     *)
(* within one millisecond                                                  *)
(***************************************************************************)
Next ==
    \/ \E s \in StepSessions : StartTrace(s)
    \/ \E s \in StepSessions, tool \in Tools, st \in AddStatus, data \in DataArgs :
           Len(StepsOf(s)) < MaxSteps /\ AddStep(s, tool, st, data)
    \/ \E s \in StepSessions, tool \in Tools, u \in UpdateArgs : UpdateStep(s, tool, u)
    \/ \E s \in StepSessions, st \in {"success", "failed"}, app \in AppNames \cup {NoStr} :
           CompleteTrace(s, st, app)

Spec == Init /\ [][Next]_vars

(***************************************************************************)
(* SpecTime: one workflow with time passing between its calls; a tool may  *)
(* be retried                                                              *)
(***************************************************************************)
NextTime ==
    \/ Tick(1) /\ now' <= Slack
    \/ \E s \in StepSessions : StartTrace(s)
    \/ \E s \in StepSessions :
           Len(StepsOf(s)) < MaxSteps /\ AddStep(s, "nexlayer_deploy", "in_progress", NoFields)
    \/ \E s \in StepSessions, st \in TerminalStatus :
           UpdateStep(s, "nexlayer_deploy", [NoFields EXCEPT !.status = st])
    \/ \E s \in StepSessions, app \in AppNames \cup {""} : CompleteTrace(s, "success", app)
    \/ \E s \in StepSessions : CompleteTrace(s, "failed", NoStr)

SpecTime == Init /\ [][NextTime]_vars

(***************************************************************************)
(* SpecFinal: one workflow whose trace is completed and then given more    *)
(* steps and step updates, while time passes                               *)
(***************************************************************************)
NextFinal ==
    \/ Tick(1) /\ now' <= Slack
    \/ \E s \in StepSessions : StartTrace(s)
    \/ \E s \in StepSessions, st \in AddStatus :
           Len(StepsOf(s)) < MaxSteps /\ AddStep(s, "nexlayer_deploy", st, NoFields)
    \/ \E s \in StepSessions, st \in {"success", "failed"} :
           UpdateStep(s, "nexlayer_deploy", [NoFields EXCEPT !.status = st])
    \/ \E s \in StepSessions, st \in {"success", "failed"} : CompleteTrace(s, st, NoStr)

SpecFinal == Init /\ [][NextFinal]_vars

(***************************************************************************)
(* SpecDuration: the steps of one workflow added and updated while time    *)
(* passes: updates with a terminal status, with another status, and        *)
(* without a status                                                        *)
(***************************************************************************)
TimedArgs == {[NoFields EXCEPT !.status = st] : st \in TerminalStatus \cup {"in_progress"}}
                \cup {[NoFields EXCEPT !.error = "oom"]}

NextDuration ==
    \/ Tick(1) /\ now' <= Slack
    \/ \E s \in StepSessions : StartTrace(s)
    \/ \E s \in StepSessions :
           Len(StepsOf(s)) < MaxSteps /\ AddStep(s, "nexlayer_deploy", "in_progress", NoFields)
    \/ \E s \in StepSessions, u \in TimedArgs : UpdateStep(s, "nexlayer_deploy", u)

SpecDuration == Init /\ [][NextDuration]_vars

(***************************************************************************)
(* SpecEvict: more sessions than the store keeps, over more than a TTL;    *)
(* the workflow of one of them reports a failed step                       *)
(***************************************************************************)
NextEvict ==
    \/ \E d \in Delays : Tick(d)
    \/ \E s \in Sessions : StartTrace(s)
    \/ \E s \in StepSessions :
           Len(StepsOf(s)) < 1 /\ AddStep(s, "nexlayer_deploy", "failed", NoFields)

SpecEvict == Init /\ [][NextEvict]_vars

(***************************************************************************)
(* SpecIdle: as SpecEvict, with the workflow of one session running to its *)
(* completion while the store ages                                         *)
(***************************************************************************)
NextIdle ==
    \/ \E d \in Delays : Tick(d)
    \/ \E s \in Sessions : StartTrace(s)
    \/ \E s \in StepSessions :
           Len(StepsOf(s)) < 1 /\ AddStep(s, "nexlayer_deploy", "in_progress", NoFields)
    \/ \E s \in StepSessions :
           UpdateStep(s, "nexlayer_deploy", [NoFields EXCEPT !.status = "success"])
    \/ \E s \in StepSessions : CompleteTrace(s, "success", "my-app")

SpecIdle == Init /\ [][NextIdle]_vars

(***************************************************************************)
(* SpecQuery: the store filled and read: every query, for identifiers      *)
(* stored and not stored, and for limits below and above the count         *)
(***************************************************************************)
QueryLimits == 0..(MAX_TRACES + 1)

NextQuery ==
    \/ Tick(1) /\ now' <= Slack
    \/ \E s \in Sessions : StartTrace(s)
    \/ \E s \in StepSessions :
           Len(StepsOf(s)) < 1 /\ AddStep(s, "nexlayer_deploy", "failed", NoFields)
    \/ \E s \in Sessions : GetTrace(s)
    \/ \E s \in Sessions : GetTraceSummary(s)
    \/ \E n \in QueryLimits : GetRecentTraces(n)
    \/ \E n \in QueryLimits : GetTraceSummaries(n)

SpecQuery == Init /\ [][NextQuery]_vars

(***************************************************************************)
(* SpecMeta: a workflow started with a repository URL and metadata, as the *)
(* test of the trace manager starts it, or without them                    *)
(***************************************************************************)
RepoUrls == {NoStr, "https://github.com/user/test-repo"}
Metadata == {NoMeta, [userId |-> "test-user", clientType |-> "test-client",
                      mcpVersion |-> NoStr]}

MetaAdd(sessionId, status) ==
    Len(StepsOf(sessionId)) < 1 /\ AddStep(sessionId, "nexlayer_deploy", status, NoFields)
MetaUpdate(sessionId) ==
    UpdateStep(sessionId, "nexlayer_deploy", [NoFields EXCEPT !.status = "success"])
MetaComplete(sessionId) == CompleteTrace(sessionId, "success", "test-app")

NextMeta ==
    \/ Tick(1) /\ now' <= Slack
    \/ \E s \in StepSessions, repoUrl \in RepoUrls, metadata \in Metadata :
           StartTraceWith(s, repoUrl, metadata)
    \/ \E s \in StepSessions, st \in {"in_progress", "failed"} : MetaAdd(s, st)
    \/ \E s \in StepSessions : MetaUpdate(s)
    \/ \E s \in StepSessions : MetaComplete(s)

SpecMeta == Init /\ [][NextMeta]_vars

(***************************************************************************)
(* SpecShare: workflows of several sessions interleaved, at one instant    *)
(***************************************************************************)
ShareAdd(sessionId) ==
    Len(StepsOf(sessionId)) < 1 /\ AddStep(sessionId, "nexlayer_deploy", "failed", NoFields)
ShareUpdate(sessionId) ==
    UpdateStep(sessionId, "nexlayer_deploy", [NoFields EXCEPT !.status = "success"])
ShareComplete(sessionId) == CompleteTrace(sessionId, "success", NoStr)

NextShare ==
    \/ \E s \in Sessions : StartTrace(s)
    \/ \E s \in Sessions : ShareAdd(s)
    \/ \E s \in Sessions : ShareUpdate(s)
    \/ \E s \in Sessions : ShareComplete(s)

SpecShare == Init /\ [][NextShare]_vars

(***************************************************************************)
(* SpecUpdate: the steps of one workflow added and updated, several of     *)
(* them for the same tool, next to the trace of another session            *)
(***************************************************************************)
Bystander == 2
\* updates that carry one field each
MergeArgs == {[NoFields EXCEPT !.status = "success"],
              [NoFields EXCEPT !.status = "skipped"],
              [NoFields EXCEPT !.error = "oom"]}

NextUpdate ==
    \/ \E s \in StepSessions \cup {Bystander} : StartTrace(s)
    \/ \E s \in StepSessions, tool \in Tools, st \in {"in_progress", "failed"} :
           Len(StepsOf(s)) < MaxSteps /\ AddStep(s, tool, st, NoFields)
    \/ Len(StepsOf(Bystander)) < 1 /\ AddStep(Bystander, "build", "failed", NoFields)
    \/ \E s \in StepSessions, tool \in Tools, u \in MergeArgs : UpdateStep(s, tool, u)

SpecUpdate == Init /\ [][NextUpdate]_vars

(***************************************************************************)
(* The dispatch wrapper (ToolRegistry.registerTool) around the             *)
(* nexlayer_deploy handler (CoreTools.registerDeploy).  An invocation runs *)
(* from the wrapper's entry to the handler's await of the platform call in *)
(* one step, and from the settling of that call to the end in another;     *)
(* other invocations run in between.                                       *)
(***************************************************************************)
Started == "Tool execution started"
Completed == "Tool execution completed"
Failed == "Tool execution failed"

\* the catch block of the handler: the outcome is the text it returns, or
\* the exception of completeTrace leaving the handler
DeployCatch(T, sessionId, t) ==
    LET updated == updateStep(T, sessionId, "nexlayer_deploy",
                              [status |-> "failed", duration |-> NoNum,
                               error |-> "platform error"], t)
    IN IF Has(updated, sessionId)
       THEN [traces |-> completeTrace(updated, sessionId, "failed", NoStr, t),
             outcome |-> "Deployment Failed", completes |-> 1]
       ELSE [traces |-> updated, outcome |-> "throw", completes |-> 1]

\* the try block after the platform call has returned
DeployAfterPlatform(T, sessionId, applicationName, t) ==
    LET updated == updateStep(T, sessionId, "nexlayer_deploy",
                              [NoFields EXCEPT !.status = "success"], t)
    IN IF Has(updated, sessionId)
       THEN [traces |-> completeTrace(updated, sessionId, "success", applicationName, t),
             outcome |-> "Deployment Successful", completes |-> 1]
       ELSE [DeployCatch(updated, sessionId, t) EXCEPT !.completes = @ + 1]

\* the try block when the YAML is empty
DeployMissingYaml_NoComplete(T, sessionId, t) ==
    [traces |-> updateStep(T, sessionId, "nexlayer_deploy",
                           [status |-> "failed", duration |-> NoNum,
                            error |-> "No YAML content provided"], t),
     outcome |-> "Missing YAML Configuration", completes |-> 0]
DeployMissingYaml(T, sessionId, t) ==
    LET updated == updateStep(T, sessionId, "nexlayer_deploy",
                              [status |-> "failed", duration |-> NoNum,
                               error |-> "No YAML content provided"], t)
    IN IF Has(updated, sessionId)
       THEN [traces |-> completeTrace(updated, sessionId, "failed", NoStr, t),
             outcome |-> "Missing YAML Configuration", completes |-> 1]
       ELSE [DeployCatch(updated, sessionId, t) EXCEPT !.completes = @ + 1]

\* the wrapper after the handler has settled: it logs, then returns the
\* handler's result or throws the handler's error again
Settle_LogsCompleted(i, outcome, completes) ==
    inv' = [inv EXCEPT ![i].pc = IF outcome = "throw" THEN "thrown" ELSE "returned",
                       ![i].logs = Append(@, Completed),
                       ![i].result = outcome,
                       ![i].completes = completes]
Settle(i, outcome, completes) ==
    inv' = [inv EXCEPT ![i].pc = IF outcome = "throw" THEN "thrown" ELSE "returned",
                       ![i].logs = Append(@, IF outcome = "throw" THEN Failed ELSE Completed),
                       ![i].result = outcome,
                       ![i].completes = completes]

\* the metadata the handler gives to startTrace
DeployMeta == [userId |-> "mcp-user", clientType |-> "nexlayer-mcp", mcpVersion |-> "1.0.0"]

\* registerTool's wrapper is entered, the handler starts its trace, adds the
\* step, and either ends at once (empty YAML) or awaits the platform call
Invoke(i, sessionId, yamlEmpty) ==
    /\ inv[i].pc = "idle"
    /\ LET started == startTraceWith(traces, sessionId, NoStr, DeployMeta, now)
       IN IF ~Has(started, sessionId)
          THEN \* addStep throws outside the handler's try block
               /\ traces' = started
               /\ inv' = [inv EXCEPT ![i] = [pc |-> "thrown", sessionId |-> sessionId,
                                             logs |-> <<Started, Failed>>,
                                             result |-> "throw", completes |-> 0]]
          ELSE LET added == addStep(started, sessionId, "nexlayer_deploy",
                                    "in_progress", NoFields, now)
               IN IF yamlEmpty
                  THEN LET r == DeployMissingYaml(added, sessionId, now)
                       IN /\ traces' = r.traces
                          /\ inv' = [inv EXCEPT ![i] =
                                [pc |-> IF r.outcome = "throw" THEN "thrown" ELSE "returned",
                                 sessionId |-> sessionId,
                                 logs |-> <<Started, IF r.outcome = "throw"
                                                     THEN Failed ELSE Completed>>,
                                 result |-> r.outcome, completes |-> r.completes]]
                  ELSE /\ traces' = added
                       /\ inv' = [inv EXCEPT ![i] = [pc |-> "awaiting",
                                                     sessionId |-> sessionId,
                                                     logs |-> <<Started>>,
                                                     result |-> "none", completes |-> 0]]
    /\ UNCHANGED <<now, threw, noop, hist, starts, answer, logger, build>>

\* client.startUserDeployment resolves
PlatformReturns(i, applicationName) ==
    /\ inv[i].pc = "awaiting"
    /\ LET r == DeployAfterPlatform(traces, inv[i].sessionId, applicationName, now)
       IN traces' = r.traces /\ Settle(i, r.outcome, r.completes)
    /\ UNCHANGED <<now, threw, noop, hist, starts, answer, logger, build>>

\* client.startUserDeployment rejects
PlatformRaises(i) ==
    /\ inv[i].pc = "awaiting"
    /\ LET r == DeployCatch(traces, inv[i].sessionId, now)
       IN traces' = r.traces /\ Settle(i, r.outcome, r.completes)
    /\ UNCHANGED <<now, threw, noop, hist, starts, answer, logger, build>>

\* params.sessionToken?.slice(0, 16) || generateSessionId(): the callers
\* share one session token (its prefix is identifier 1); an invocation
\* without a token generates an identifier of its own
SessionIdOf(i, hasToken) == IF hasToken THEN 1 ELSE i

NextDeploy ==
    \/ \E i \in Invocations, hasToken \in BOOLEAN, yamlEmpty \in BOOLEAN :
           Invoke(i, SessionIdOf(i, hasToken), yamlEmpty)
    \/ \E i \in Invocations, app \in AppNames : PlatformReturns(i, app)
    \/ \E i \in Invocations : PlatformRaises(i)

SpecDeploy == Init /\ [][NextDeploy]_vars

(***************************************************************************)
(* NexlayerLogger.  Strings are sequences of characters, so that           *)
(* toLowerCase, includes, slice and replace are computed                   *)
(***************************************************************************)
RATE_LIMIT_WINDOW == 60 * 1000

UpperCase == <<"A", "B", "C", "D", "E", "F", "G", "H", "I", "J", "K", "L", "M", "N", "O", "P", "Q", "R", "S", "T", "U", "V", "W", "X", "Y", "Z">>
LowerCase == <<"a", "b", "c", "d", "e", "f", "g", "h", "i", "j", "k", "l", "m", "n", "o", "p", "q", "r", "s", "t", "u", "v", "w", "x", "y", "z">>

\* String.prototype.toLowerCase
toLowerCase(str) ==
    [k \in 1..Len(str) |->
        IF \E c \in 1..Len(UpperCase) : UpperCase[c] = str[k]
        THEN LowerCase[CHOOSE c \in 1..Len(UpperCase) : UpperCase[c] = str[k]]
        ELSE str[k]]

\* str.slice(k - 1, k - 1 + Len(sub)) === sub
MatchesAt(str, k, sub) ==
    /\ k + Len(sub) - 1 <= Len(str)
    /\ SubSeq(str, k, k + Len(sub) - 1) = sub

\* String.prototype.includes
includes(str, sub) == \E k \in 1..(Len(str) + 1) : MatchesAt(str, k, sub)

sensitiveKeys ==
    <<<<"s", "e", "s", "s", "i", "o", "n", "T", "o", "k", "e", "n">>, <<"a", "p", "i", "K", "e", "y">>, <<"p", "a", "s", "s", "w", "o", "r", "d">>, <<"s", "e", "c", "r", "e", "t">>, <<"t", "o", "k", "e", "n">>>>

\* sensitiveKeys.some(sensitive => key.toLowerCase().includes(sensitive))
IsSensitive(key) ==
    \E k \in 1..Len(sensitiveKeys) : includes(toLowerCase(key), sensitiveKeys[k])

\* the values of a LogData object: strings, numbers and nested objects
StringValue(str) == [type |-> "string", str |-> str, obj |-> <<>>]
NumberValue == [type |-> "number", str |-> <<>>, obj |-> <<>>]
ObjectValue(data) == [type |-> "object", str |-> <<>>, obj |-> data]

REDACTED == <<"[", "R", "E", "D", "A", "C", "T", "E", "D", "]">>
Ellipsis == <<".", ".", ".">>

\* `${value.slice(0, 3)}...${value.slice(-3)}` for a string longer than 8
\* characters, '[REDACTED]' for any other value
Redact(value) ==
    IF value.type = "string" /\ Len(value.str) > 8
    THEN StringValue(SubSeq(value.str, 1, 3) \o Ellipsis
                        \o SubSeq(value.str, Len(value.str) - 2, Len(value.str)))
    ELSE StringValue(REDACTED)

TokenEq == <<"t", "o", "k", "e", "n", "=">>
GitHub == <<"g", "i", "t", "h", "u", "b", ".", "c", "o", "m">>
\* the characters that [^&\s] refuses
TokenEnd == {"&", " "}

\* value.replace(/token=[^&\s]+/g, 'token=[REDACTED]'), from position k on
RECURSIVE ReplaceTokens(_, _)
ReplaceTokens(str, k) ==
    IF k > Len(str) THEN <<>>
    ELSE IF /\ MatchesAt(str, k, TokenEq)
            /\ k + Len(TokenEq) <= Len(str)
            /\ str[k + Len(TokenEq)] \notin TokenEnd
         THEN LET stops == {j \in (k + Len(TokenEq))..Len(str) : str[j] \in TokenEnd}
                  next == IF stops = {} THEN Len(str) + 1
                          ELSE CHOOSE j \in stops : \A i \in stops : j <= i
              IN TokenEq \o REDACTED \o ReplaceTokens(str, next)
         ELSE <<str[k]>> \o ReplaceTokens(str, k + 1)

\* sanitizeData: an object is the sequence of its entries; each of the three
\* tests reads the entry's original value and assigns sanitized[key]
RECURSIVE sanitizeData(_)
sanitizeData(data) ==
    [k \in 1..Len(data) |->
        LET key == data[k].key
            value == data[k].value
            hidden == IF IsSensitive(key) THEN Redact(value) ELSE value
            urls == IF value.type = "string" /\ includes(value.str, GitHub)
                    THEN StringValue(ReplaceTokens(value.str, 1))
                    ELSE hidden
            nested == IF value.type = "object"
                      THEN ObjectValue(sanitizeData(value.obj))
                      ELSE urls
        IN [key |-> key, value |-> nested]]

shouldRateLimit_ResetsAtResetTime(limit, t) ==
    IF limit = <<>> \/ t >= limit[1].resetTime
    THEN [limited |-> FALSE,
          rateLimit |-> <<[count |-> 1, resetTime |-> t + RATE_LIMIT_WINDOW]>>]
    ELSE IF limit[1].count >= RATE_LIMIT
    THEN [limited |-> TRUE, rateLimit |-> limit]
    ELSE [limited |-> FALSE, rateLimit |-> <<[limit[1] EXCEPT !.count = @ + 1]>>]
\* shouldRateLimit: what it returns and what it leaves in rateLimitMap
shouldRateLimit(limit, t) ==
    IF limit = <<>> \/ t > limit[1].resetTime
    THEN [limited |-> FALSE,
          rateLimit |-> <<[count |-> 1, resetTime |-> t + RATE_LIMIT_WINDOW]>>]
    ELSE IF limit[1].count >= RATE_LIMIT
    THEN [limited |-> TRUE, rateLimit |-> limit]
    ELSE [limited |-> FALSE, rateLimit |-> <<[limit[1] EXCEPT !.count = @ + 1]>>]

\* the levels that are written even when the limit is reached
AlwaysWritten == {"critical", "alert", "emergency"}

\* log(level, message, data)
Log(level, data) ==
    /\ LET r == shouldRateLimit(logger.rateLimit, now)
       IN logger' =
            IF r.limited /\ level \notin AlwaysWritten
            THEN [logger EXCEPT !.rateLimit = r.rateLimit, !.wrote = FALSE]
            ELSE [rateLimit |-> r.rateLimit,
                  written |-> IF level \in AlwaysWritten THEN logger.written
                              ELSE Append(logger.written, now),
                  out |-> <<[level |-> level, data |-> sanitizeData(data),
                             given |-> data]>>,
                  wrote |-> TRUE]
    /\ UNCHANGED <<now, traces, threw, noop, hist, starts, answer, inv, build>>

\* time passes between two log calls
LogTimes == {w * RATE_LIMIT_WINDOW + d : w \in 0..2, d \in 0..Slack}
LogTick(d) ==
    /\ now + d \in LogTimes
    /\ now' = now + d
    /\ UNCHANGED <<traces, threw, noop, hist, starts, answer, inv, logger, build>>

LogLevels == {"info", "critical"}

(***************************************************************************)
(* SpecLogRate: one logger, calls without data, time passing               *)
(***************************************************************************)
NextLogRate ==
    \/ \E d \in {1, RATE_LIMIT_WINDOW} : LogTick(d)
    \/ \E level \in LogLevels : Log(level, <<>>)

SpecLogRate == Init /\ [][NextLogRate]_vars

(***************************************************************************)
(* SpecLogData: one logger, calls with one data entry                      *)
(***************************************************************************)
LogKeys ==
    {<<"s", "e", "s", "s", "i", "o", "n", "T", "o", "k", "e", "n">>,
     <<"a", "p", "i", "K", "e", "y">>,
     <<"p", "a", "s", "s", "w", "o", "r", "d">>,
     <<"s", "e", "c", "r", "e", "t">>,
     <<"t", "o", "k", "e", "n">>,
     <<"a", "c", "c", "e", "s", "s", "T", "o", "k", "e", "n">>,
     <<"P", "A", "S", "S", "W", "O", "R", "D">>,
     <<"m", "e", "s", "s", "a", "g", "e">>,
     <<"r", "e", "p", "o", "U", "r", "l">>}
LongValue == <<"s", "k", "-", "A", "A", "A", "A", "A", "A", "-", "e", "n", "d">>
LongValueToo == <<"s", "k", "-", "B", "B", "B", "B", "B", "B", "-", "e", "n", "d">>
LogStrings ==
    {<<"h", "u", "n", "t", "e", "r", "2">>,
     LongValue, LongValueToo,
     <<"h", "t", "t", "p", "s", ":", "/", "/", "g", "i", "t", "h", "u", "b", ".", "c", "o", "m", "/", "u", "/", "r", "?", "t", "o", "k", "e", "n", "=", "g", "h", "p", "_", "1", "&", "x", "=", "1">>}
LogValues ==
    {StringValue(str) : str \in LogStrings}
       \cup {NumberValue, ObjectValue(<<[key |-> <<"p", "a", "s", "s", "w", "o", "r", "d">>, value |-> StringValue(LongValue)]>>)}
LogDataArgs == {<<[key |-> key, value |-> value]>> : key \in LogKeys, value \in LogValues}

NextLogData == \E level \in LogLevels, data \in LogDataArgs : Log(level, data)

SpecLogData == Init /\ [][NextLogData]_vars

(***************************************************************************)
(* buildAndPushImages: the promise around the spawned build process.  The  *)
(* callbacks of the timer and of the child's 'close' and 'error' events    *)
(* run one at a time, in any order the process and the clock produce.      *)
(***************************************************************************)
\* resolve(value): only the first call settles the promise
Resolve_Overwrites(promise, value) == <<value>>
Resolve(promise, value) == IF promise = Pending THEN <<value>> ELSE promise

\* clearTimeout(timeoutId): a timer that has fired stays fired
ClearTimeout(timer) == IF timer = "armed" THEN "cleared" ELSE timer

TimedOut == [success |-> FALSE, error |-> "Build process timed out"]
SpawnFailed == [success |-> FALSE, error |-> "Failed to spawn build process"]

\* what the 'close' callback resolves with: the exit code first, then
\* JSON.parse(stdout) and the result's error field
CloseResult(code, stdout) ==
    IF code # 0 THEN [success |-> FALSE, error |-> "Build process failed with code"]
    ELSE IF stdout = "garbage"
    THEN [success |-> FALSE, error |-> "Failed to parse build result"]
    ELSE IF stdout = "error" THEN [success |-> FALSE, error |-> "result.error"]
    ELSE [success |-> TRUE, error |-> NoStr]

\* what the process can have written to stdout when it closes: a result, a
\* result with an error field, or text that is not JSON
Stdouts == {"result", "error", "garbage"}
\* exit codes: 0, and 1 for every other code (and for a death by signal)
ExitCodes == {0, 1}
BuildTimeouts == 1..(Slack + 1)

\* spawn(binaryPath, args, ..) and setTimeout(.., timeout)
Spawn(timeout) ==
    /\ build.pc = "idle"
    /\ build' = [build EXCEPT !.pc = "spawned", !.timeout = timeout, !.timer = "armed"]
    /\ UNCHANGED <<now, traces, threw, noop, hist, starts, answer, inv, logger>>

\* a millisecond passes; an armed timer does not outlast its delay
BuildTick ==
    /\ build.pc = "spawned"
    /\ build.elapsed < build.timeout + Slack
    /\ ~(build.timer = "armed" /\ build.elapsed >= build.timeout)
    /\ build' = [build EXCEPT !.elapsed = @ + 1]
    /\ UNCHANGED <<now, traces, threw, noop, hist, starts, answer, inv, logger>>

\* the timer's callback
TimeoutFires ==
    /\ build.timer = "armed"
    /\ build.elapsed >= build.timeout
    /\ build' = [build EXCEPT !.timer = "fired",
                              !.signals = Append(@, "SIGTERM"),
                              !.promise = Resolve(@, TimedOut),
                              !.events = Append(@, [event |-> "timeout", code |-> 0,
                                                    stdout |-> "none"])]
    /\ UNCHANGED <<now, traces, threw, noop, hist, starts, answer, inv, logger>>

\* child.on('close', code => ..)
Close(code, stdout) ==
    /\ build.pc = "spawned"
    /\ ~build.closed
    /\ build' = [build EXCEPT !.closed = TRUE,
                              !.timer = ClearTimeout(@),
                              !.promise = Resolve(@, CloseResult(code, stdout)),
                              !.events = Append(@, [event |-> "close", code |-> code,
                                                    stdout |-> stdout])]
    /\ UNCHANGED <<now, traces, threw, noop, hist, starts, answer, inv, logger>>

\* child.on('error', error => ..)
SpawnError ==
    /\ build.pc = "spawned"
    /\ ~build.errored
    /\ ~build.closed
    /\ build' = [build EXCEPT !.errored = TRUE,
                              !.timer = ClearTimeout(@),
                              !.promise = Resolve(@, SpawnFailed),
                              !.events = Append(@, [event |-> "error", code |-> 0,
                                                    stdout |-> "none"])]
    /\ UNCHANGED <<now, traces, threw, noop, hist, starts, answer, inv, logger>>

NextBuild ==
    \/ \E timeout \in BuildTimeouts : Spawn(timeout)
    \/ BuildTick
    \/ TimeoutFires
    \/ \E code \in ExitCodes, stdout \in Stdouts : Close(code, stdout)
    \/ SpawnError

SpecBuild == Init /\ [][NextBuild]_vars

(***************************************************************************)
(* SpecDeploySeq: the invocations one after the other (none starts while   *)
(* another awaits the platform), with time passing                         *)
(***************************************************************************)
NoneAwaiting == \A i \in Invocations : inv[i].pc # "awaiting"

NextDeploySeq ==
    \/ Tick(1) /\ now' <= Slack
    \/ \E i \in Invocations, hasToken \in BOOLEAN, yamlEmpty \in BOOLEAN :
           NoneAwaiting /\ Invoke(i, SessionIdOf(i, hasToken), yamlEmpty)
    \/ \E i \in Invocations, app \in AppNames : PlatformReturns(i, app)
    \/ \E i \in Invocations : PlatformRaises(i)

SpecDeploySeq == Init /\ [][NextDeploySeq]_vars

(***************************************************************************)
(* Properties of the store                                                 *)
(***************************************************************************)
TraceOf(sessionId) == MapGet(traces, sessionId)
StartOf(trace) == getTime(trace.startTime)
HasFailedStep(trace) == \E k \in 1..Len(trace.steps) : trace.steps[k].status = "failed"
ToolsOf(steps) == [k \in 1..Len(steps) |-> steps[k].tool]
\* getTrace(sessionId) returns the same before and after the step
SameTrace(sessionId) ==
    /\ Has(traces, sessionId) <=> Has(traces', sessionId)
    /\ Has(traces, sessionId) => MapGet(traces', sessionId) = MapGet(traces, sessionId)
\* more distinct identifiers were started than the store keeps
OverCapRun == starts.distinct /\ Cardinality(starts.ids) > MAX_TRACES

\* C1 (SpecEvict): after every call, startTrace included, the store holds at
\* most MAX_TRACES traces, whatever the ages of the traces.
C1_HardCap == Len(traces) <= MAX_TRACES

C1_Witness == OverCapRun /\ Len(traces) = MAX_TRACES

\* C2 as claimed (Spec): a trace is 'failed' exactly when it was completed as
\* 'failed' or one of its steps is 'failed' now, and it is 'in_progress' when
\* it has no failed step and was never completed.
C2_StatusIffFailedStep ==
    \A i \in 1..Len(traces) :
        LET trace == traces[i]
            h == hist[trace.sessionId]
        IN /\ trace.status = "failed" <=> (h.completed = "failed" \/ HasFailedStep(trace))
           /\ (~HasFailedStep(trace) /\ h.completed = "none") => trace.status = "in_progress"

\* C2 amended (Spec): the status follows the calls that assign it, not the
\* steps' current statuses: it is 'failed' exactly when the latest of the
\* trace's completeTrace and addStep(.., 'failed') calls was
\* completeTrace(s, 'failed') or addStep(s, .., 'failed'), 'success' exactly
\* when it was completeTrace(s, 'success'), and 'in_progress' exactly when
\* there was no such call; updateStep never changes it.
C2_StatusFollowsCalls ==
    \A i \in 1..Len(traces) :
        LET trace == traces[i]
            h == hist[trace.sessionId]
        IN /\ trace.status = "failed" <=> h.lastEvent \in {"addStepFailed", "completeFailed"}
           /\ trace.status = "success" <=> h.lastEvent = "completeSuccess"
           /\ trace.status = "in_progress" <=> h.lastEvent = "none"

\* a trace completed as 'success' that holds a failed step, and one still
\* 'in_progress' whose step updateStep has set to 'failed'
C2_Witness ==
    \E i \in 1..Len(traces) :
        /\ traces[i].status = "in_progress"
        /\ HasFailedStep(traces[i])
        /\ hist[traces[i].sessionId].lastEvent = "none"

\* C3 as claimed (SpecTime): once an updateStep call has computed a step's
\* duration, no later call on the same trace changes it.
C3_DurationSetOnce ==
    [][\A s \in Sessions :
          (Has(traces, s) /\ Has(traces', s)) =>
             \A k \in 1..Len(TraceOf(s).steps) :
                (k <= Len(TraceOf(s)'.steps) /\ TraceOf(s).steps[k].duration # NoNum)
                   => TraceOf(s)'.steps[k].duration = TraceOf(s).steps[k].duration]_vars

\* C4 (Spec): from addStep(s, x, 'failed') until the next completeTrace(s) or
\* startTrace(s), the trace is 'failed' with endTime and totalDuration set,
\* whatever addStep and updateStep calls follow.
C4_FailureSticky ==
    \A i \in 1..Len(traces) :
        hist[traces[i].sessionId].lastEvent = "addStepFailed" =>
            /\ traces[i].status = "failed"
            /\ traces[i].endTime # NoTime
            /\ traces[i].totalDuration # NoNum

\* the failed step was retried, and every step is 'success' by now
C4_Witness ==
    \E i \in 1..Len(traces) :
        /\ hist[traces[i].sessionId].lastEvent = "addStepFailed"
        /\ Len(traces[i].steps) = 2
        /\ traces[i].steps[1].tool = traces[i].steps[2].tool
        /\ \A k \in 1..2 : traces[i].steps[k].status = "success"

\* C5 (Spec): the tools of a trace's steps are the tools of the addStep calls
\* that returned since its startTrace, in call order; a call changes the
\* number of steps only by appending one (addStep) or by starting the trace
\* anew, and never changes the tool or the timestamp of a step in place.
C5_AppendOnly ==
    /\ [](\A i \in 1..Len(traces) :
             ToolsOf(traces[i].steps) = hist[traces[i].sessionId].added)
    /\ [][\A s \in Sessions :
             (Has(traces, s) /\ Has(traces', s)) =>
                LET old == TraceOf(s).steps
                    new == TraceOf(s)'.steps
                IN \/ new = <<>> /\ hist'[s].added = <<>>
                   \/ /\ Len(new) \in {Len(old), Len(old) + 1}
                      /\ \A k \in 1..Len(old) :
                            /\ new[k].tool = old[k].tool
                            /\ new[k].timestamp = old[k].timestamp]_vars

\* two steps of different tools, both updated after the second was added,
\* on a trace that was then completed
C5_Witness ==
    \E i \in 1..Len(traces) :
        /\ Len(traces[i].steps) = 2
        /\ traces[i].steps[1].tool # traces[i].steps[2].tool
        /\ traces[i].steps[1].status = "skipped"
        /\ traces[i].steps[2].status = "failed"
        /\ traces[i].status = "success"

\* the Map after this.traces.set(sessionId, trace), before the cleanup
AfterSet(sessionId) == MapSet(traces, sessionId, NewTrace(sessionId, now))
NoneExpired(T) == \A i \in 1..Len(T) : ~IsExpired(T[i], now)
\* the entries of T that the step removed
Removed(T) == {i \in 1..Len(T) : ~Has(traces', T[i].sessionId)}

\* C6 (SpecEvict): when startTrace brings the count above MAX_TRACES and no
\* trace is older than the TTL, the call removes as many traces as exceed
\* the cap (one), leaves MAX_TRACES traces, keeps the other entries as they
\* were, and every trace it keeps started no earlier than every trace it
\* removes; a run of more than MAX_TRACES distinct identifiers, all within
\* one TTL, leaves exactly MAX_TRACES traces.
C6_OldestFirst ==
    /\ [][\A s \in Sessions :
             (StartTrace(s) /\ Len(AfterSet(s)) > MAX_TRACES /\ NoneExpired(AfterSet(s))) =>
                LET set == AfterSet(s)
                IN /\ Len(traces') = MAX_TRACES
                   /\ Cardinality(Removed(set)) = Len(set) - MAX_TRACES
                   /\ Cardinality(Removed(set)) = 1
                   /\ traces' = SelectSeq(set, LAMBDA e : Has(traces', e.sessionId))
                   /\ \A i \in Removed(set), j \in 1..Len(set) :
                         j \notin Removed(set) => StartOf(set[j]) >= StartOf(set[i])]_vars
    /\ []((OverCapRun /\ now <= TRACE_TTL) => Len(traces) = MAX_TRACES)

\* the store is full after an eviction by age order alone, and the traces
\* kept did not all start at the same time
C6_Witness ==
    /\ OverCapRun /\ ~starts.ttl
    /\ Len(traces) = MAX_TRACES
    /\ \E i, j \in 1..Len(traces) : StartOf(traces[i]) < StartOf(traces[j])

\* C7 as claimed (SpecEvict): after MAX_TRACES + k startTrace calls with
\* distinct identifiers, getRecentTraces(MAX_TRACES + k) returns exactly
\* MAX_TRACES traces.
C7_ExactlyMax ==
    OverCapRun =>
        Len(getRecentTraces(traces, Cardinality(starts.ids))) = MAX_TRACES

\* C7 amended (SpecEvict): it returns at most MAX_TRACES traces, and exactly
\* MAX_TRACES unless a call that exceeded the cap met a trace older than the
\* TTL (every such trace is removed, so fewer may remain).
C7_AtMostMax ==
    OverCapRun =>
        LET n == Len(getRecentTraces(traces, Cardinality(starts.ids)))
        IN /\ n <= MAX_TRACES
           /\ n >= 1
           /\ ~starts.ttl => n = MAX_TRACES

\* more than a TTL has passed, yet no cleanup met an expired trace
C7_Witness ==
    /\ OverCapRun /\ ~starts.ttl
    /\ now > TRACE_TTL
    /\ Len(getRecentTraces(traces, Cardinality(starts.ids))) = MAX_TRACES

\* C8 (SpecEvict): right after startTrace(s), whatever the store held,
\* getTrace(s) is a trace 'in_progress' with no steps, no endTime, no
\* totalDuration, and startTime the time of the call: the cleanup of the
\* call never removes the trace it has just stored.
C8_StartPostcondition ==
    [][\A s \in Sessions :
          StartTrace(s) =>
             /\ Has(traces', s)
             /\ LET trace == MapGet(traces', s)
                IN /\ trace.sessionId = s
                   /\ trace.status = "in_progress"
                   /\ trace.steps = <<>>
                   /\ trace.endTime = NoTime
                   /\ trace.totalDuration = NoNum
                   /\ getTime(trace.startTime) = now]_vars

\* a trace just started into a full store whose traces all carry the same
\* startTime: the age order alone does not tell it from the others
C8_Witness ==
    /\ OverCapRun
    /\ Len(traces) = MAX_TRACES
    /\ \A i \in 1..Len(traces) : StartOf(traces[i]) = now
    /\ \E i \in 1..Len(traces) :
          /\ traces[i].steps = <<>>
          /\ traces[i].status = "in_progress"
          /\ \A j \in 1..Len(traces) : j <= i

\* a store call made with sessionId
StepCallWith(sessionId) ==
    ShareAdd(sessionId) \/ ShareUpdate(sessionId) \/ ShareComplete(sessionId)
CallWith(sessionId) == StartTrace(sessionId) \/ StepCallWith(sessionId)

\* C9 as claimed (SpecShare): no call made with s2 changes what getTrace(s)
\* returns for another identifier s, nor removes the trace of s.
C9_Independent ==
    [][\A s2 \in Sessions :
          CallWith(s2) => \A s \in Sessions \ {s2} : SameTrace(s)]_vars

\* C9 amended (SpecShare): addStep, updateStep and completeTrace made with s2
\* never change what getTrace(s) returns; startTrace(s2) leaves the trace of
\* s as it was or removes it whole, and removes it only when s2 is new to a
\* store that already holds MAX_TRACES traces (after which addStep and
\* completeTrace on s throw not-found).
C9_IndependentButEviction ==
    [][\A s2 \in Sessions :
          /\ StepCallWith(s2) => \A s \in Sessions \ {s2} : SameTrace(s)
          /\ StartTrace(s2) =>
                \A s \in Sessions \ {s2} :
                   \/ SameTrace(s)
                   \/ /\ Has(traces, s) /\ ~Has(traces', s)
                      /\ ~Has(traces, s2)
                      /\ Len(traces) = MAX_TRACES]_vars

\* two workflows interleaved: both traces hold a step, one was completed and
\* the other was not
C9_Witness ==
    /\ Len(traces) = MAX_TRACES
    /\ \A i \in 1..Len(traces) : Len(traces[i].steps) = 1
    /\ \E i, j \in 1..Len(traces) :
          /\ traces[i].status = "success"
          /\ traces[j].status = "failed"
          /\ traces[j].steps[1].status = "success"

\* C10 as claimed (SpecDeploy): an invocation whose trace is missing when
\* the handler completes it still returns a text result; the not-found
\* exception does not reach the caller of the wrapper.
C10_NotFoundIsReported ==
    \A i \in Invocations :
        inv[i].pc # "thrown" /\ inv[i].result # "throw"

\* C11 (SpecShare): addStep and completeTrace called with an identifier that
\* has no stored trace (never started, or evicted) throw not-found and leave
\* the store as it was: no trace is created, no trace is changed.
C11_NotFoundLeavesStore ==
    [][\A s \in Sessions :
          ((ShareAdd(s) \/ ShareComplete(s)) /\ ~Has(traces, s))
              => (threw' /\ traces' = traces)]_vars

\* a call has just thrown against a full store of traces that hold steps
C11_Witness ==
    /\ threw
    /\ Len(traces) = MAX_TRACES
    /\ \A i \in 1..Len(traces) : Len(traces[i].steps) = 1

NoStepOf(steps, tool) == \A k \in 1..Len(steps) : steps[k].tool # tool

\* C12 (SpecUpdate): updateStep for an identifier without a stored trace, or
\* for a tool of which the trace holds no step, throws nothing and leaves
\* the whole store as it was.
C12_SilentNoOp ==
    [][\A s \in StepSessions, tool \in Tools, u \in MergeArgs :
          (UpdateStep(s, tool, u) /\ (~Has(traces, s) \/ NoStepOf(StepsOf(s), tool)))
              => (traces' = traces /\ ~threw')]_vars

\* updateStep has just found no step of its tool in a trace that holds a
\* step of the other tool, with the trace of another session in the store
C12_Witness ==
    /\ noop /\ ~threw
    /\ Has(traces, Bystander)
    /\ \E s \in StepSessions : Len(StepsOf(s)) = 1

\* C13 (SpecUpdate): updateStep on a trace that holds steps of the tool
\* changes the one at the highest index only; in that step the tool and the
\* timestamp stay, the status and the error change exactly when the updates
\* carry them, and the duration changes only when the updates carry a
\* terminal status; the other steps, the trace's own fields and every other
\* trace stay as they were.
C13_LastMatchOnly ==
    [][\A s \in StepSessions, tool \in Tools, u \in MergeArgs :
          (UpdateStep(s, tool, u) /\ Has(traces, s) /\ ~NoStepOf(StepsOf(s), tool)) =>
             LET old == TraceOf(s)
                 new == TraceOf(s)'
                 last == CHOOSE k \in 1..Len(old.steps) :
                            /\ old.steps[k].tool = tool
                            /\ \A j \in (k + 1)..Len(old.steps) : old.steps[j].tool # tool
             IN /\ Has(traces', s)
                /\ Len(new.steps) = Len(old.steps)
                /\ \A k \in 1..Len(old.steps) : k # last => new.steps[k] = old.steps[k]
                /\ new.steps[last].tool = old.steps[last].tool
                /\ new.steps[last].timestamp = old.steps[last].timestamp
                /\ new.steps[last].status =
                      IF u.status # NoStr THEN u.status ELSE old.steps[last].status
                /\ new.steps[last].error =
                      IF u.error # NoStr THEN u.error ELSE old.steps[last].error
                /\ new.steps[last].duration # old.steps[last].duration
                      => u.status \in TerminalStatus
                /\ [new EXCEPT !.steps = old.steps] = old
                /\ \A s2 \in Sessions \ {s} : SameTrace(s2)]_vars

\* two steps of one tool in a failed trace: the later one was updated, the
\* earlier one is as addStep left it; the other session's trace is stored
C13_Witness ==
    /\ Has(traces, Bystander) /\ Len(StepsOf(Bystander)) = 1
    /\ \E s \in StepSessions :
          /\ Len(StepsOf(s)) = 2
          /\ StepsOf(s)[1].tool = StepsOf(s)[2].tool
          /\ StepsOf(s)[1].status = "failed" /\ StepsOf(s)[1].error = NoStr
          /\ StepsOf(s)[2].status = "skipped" /\ StepsOf(s)[2].error = "oom"
          /\ TraceOf(s).status = "failed"

StepsWith(trace, status) == {k \in 1..Len(trace.steps) : trace.steps[k].status = status}

\* C14 (Spec): the summary's status is 'in_progress' when the trace's status
\* is; otherwise it is 'failed' when a step is 'failed' now and 'success'
\* when none is.  A trace completed as 'success' that holds one failed step
\* has summary status 'failed' and failedStep the tool of that step.
C14_SummaryPrecedence ==
    \A i \in 1..Len(traces) :
        LET trace == traces[i]
            summary == getTraceSummary(traces, trace.sessionId)
        IN /\ trace.status = "in_progress" => summary.status = "in_progress"
           /\ (trace.status # "in_progress" /\ HasFailedStep(trace))
                 => summary.status = "failed"
           /\ (trace.status # "in_progress" /\ ~HasFailedStep(trace))
                 => summary.status = "success"
           /\ hist[trace.sessionId].lastEvent = "completeSuccess" =>
                 \A k \in StepsWith(trace, "failed") :
                    /\ summary.status = "failed"
                    /\ StepsWith(trace, "failed") = {k}
                          => summary.failedStep = trace.steps[k].tool

\* a trace completed as 'success' whose second step alone is 'failed'
C14_Witness ==
    \E i \in 1..Len(traces) :
        /\ traces[i].status = "success"
        /\ hist[traces[i].sessionId].lastEvent = "completeSuccess"
        /\ StepsWith(traces[i], "failed") = {2}
        /\ traces[i].steps[1].tool # traces[i].steps[2].tool
        /\ getTraceSummary(traces, traces[i].sessionId).status = "failed"

\* C15 (Spec): stepCount is the number of steps, successCount and
\* failureCount the numbers of steps that are 'success' and 'failed' now,
\* failedStep the tool of the failed step of lowest index, absent exactly
\* when failureCount is 0.  A failed build step followed by a successful
\* build step gives failureCount 1, successCount 1, status 'failed' and
\* failedStep 'build'.
C15_SummaryCounts ==
    \A i \in 1..Len(traces) :
        LET trace == traces[i]
            summary == getTraceSummary(traces, trace.sessionId)
            failed == StepsWith(trace, "failed")
        IN /\ summary.stepCount = Len(trace.steps)
           /\ summary.successCount = Cardinality(StepsWith(trace, "success"))
           /\ summary.failureCount = Cardinality(failed)
           /\ summary.failedStep = NoStr <=> summary.failureCount = 0
           /\ \A k \in failed :
                 (\A j \in failed : k <= j) => summary.failedStep = trace.steps[k].tool
           /\ ( /\ hist[trace.sessionId].added = <<"build", "build">>
                /\ hist[trace.sessionId].lastEvent = "addStepFailed"
                /\ trace.steps[1].status = "failed"
                /\ trace.steps[2].status = "success" )
                 => /\ summary.failureCount = 1
                    /\ summary.successCount = 1
                    /\ summary.status = "failed"
                    /\ summary.failedStep = "build"

\* the build step failed and its retry, a second build step, succeeded
C15_Witness ==
    \E i \in 1..Len(traces) :
        /\ hist[traces[i].sessionId].added = <<"build", "build">>
        /\ hist[traces[i].sessionId].lastEvent = "addStepFailed"
        /\ traces[i].steps[1].status = "failed"
        /\ traces[i].steps[2].status = "success"
        /\ getTraceSummary(traces, traces[i].sessionId).failedStep = "build"

\* C16 (SpecTime): completeTrace(s, st, name) at time t on a stored trace
\* sets the status to st whatever it was, endTime to t and totalDuration to
\* t minus the trace's startTime, sets applicationName when a name is given
\* and keeps the previous one otherwise; startTime and the steps stay, so a
\* second call at a later time recomputes totalDuration from the original
\* startTime.
C16_CompleteStamps ==
    [][\A s \in StepSessions, st \in {"success", "failed"},
          app \in AppNames \cup {"", NoStr} :
          (CompleteTrace(s, st, app) /\ Has(traces, s)) =>
             LET old == TraceOf(s)
                 new == TraceOf(s)'
             IN /\ new.status = st
                /\ getTime(new.endTime) = now
                /\ new.totalDuration = now - StartOf(old)
                /\ new.startTime = old.startTime
                /\ new.applicationName =
                      IF app \in AppNames THEN app ELSE old.applicationName
                /\ new.steps = old.steps
                /\ new.sessionId = old.sessionId]_vars

\* a trace completed as 'success' under a name, then completed again as
\* 'failed' without a name after the clock has moved on
C16_Witness ==
    \E i \in 1..Len(traces) :
        /\ traces[i].status = "failed"
        /\ hist[traces[i].sessionId].lastEvent = "completeFailed"
        /\ traces[i].applicationName = "my-app"
        /\ traces[i].totalDuration > 0
        /\ getTime(traces[i].endTime) = now

\* now - startTime exceeds the time to live
OlderThanTTL(trace) == now - StartOf(trace) > TRACE_TTL
Expired(T) == {i \in 1..Len(T) : OlderThanTTL(T[i])}

\* C17 (SpecEvict): when startTrace brings the count above MAX_TRACES and a
\* stored trace is older than the TTL, the call removes every trace older
\* than the TTL and no trace whose age is at most the TTL; and whenever a
\* startTrace removes a trace that is not older than the TTL, the count was
\* above MAX_TRACES even without the expired traces.
C17_TTLPhase ==
    [][\A s \in Sessions :
          StartTrace(s) =>
             LET set == AfterSet(s)
             IN /\ (Len(set) > MAX_TRACES /\ Expired(set) # {})
                      => /\ Removed(set) = Expired(set)
                         /\ traces' = SelectSeq(set, LAMBDA e : ~OlderThanTTL(e))
                /\ Removed(set) \ Expired(set) # {}
                      => Len(set) - Cardinality(Expired(set)) > MAX_TRACES]_vars

\* a cleanup has met an expired trace, and a trace whose age is exactly the
\* TTL is still stored
C17_Witness ==
    /\ starts.ttl
    /\ \E i \in 1..Len(traces) : now - StartOf(traces[i]) = TRACE_TTL

\* C18 (SpecIdle): a trace leaves the store only in a startTrace call that
\* brought the count above MAX_TRACES; no other call and no passage of time
\* removes one, so a trace older than the TTL stays stored while the count
\* stays at or below MAX_TRACES.
C18_OnlyStartEvicts ==
    [][\A s \in Sessions :
          (Has(traces, s) /\ ~Has(traces', s)) =>
             \E s2 \in Sessions \ {s} :
                StartTrace(s2) /\ Len(AfterSet(s2)) > MAX_TRACES]_vars

\* a trace older than the TTL is stored, and was completed after it had
\* passed the TTL
C18_Witness ==
    \E i \in 1..Len(traces) :
        /\ OlderThanTTL(traces[i])
        /\ traces[i].status = "success"
        /\ getTime(traces[i].endTime) - StartOf(traces[i]) > TRACE_TTL

\* C19 (SpecIdle): startTrace(s) for an identifier that has a stored trace
\* throws nothing and stores a fresh trace in its place: 'in_progress', no
\* steps, no endTime, totalDuration or applicationName, startTime the time
\* of the call; the number of traces and the other traces stay.
C19_OverwriteOnRestart ==
    [][\A s \in Sessions :
          (StartTrace(s) /\ Has(traces, s)) =>
             /\ ~threw'
             /\ Has(traces', s)
             /\ LET new == MapGet(traces', s)
                IN /\ new.status = "in_progress"
                   /\ new.steps = <<>>
                   /\ new.endTime = NoTime
                   /\ new.totalDuration = NoNum
                   /\ new.applicationName = NoStr
                   /\ getTime(new.startTime) = now
             /\ Len(traces') = Len(traces)
             /\ \A s2 \in Sessions \ {s} : SameTrace(s2)]_vars

\* a full store in which a fresh trace stands before a trace that started
\* earlier: it took the place of an older trace of its identifier
C19_Witness ==
    /\ Len(traces) = MAX_TRACES
    /\ \E i, j \in 1..Len(traces) :
          /\ i < j
          /\ StartOf(traces[i]) > StartOf(traces[j])
          /\ traces[i].status = "in_progress"
          /\ traces[i].steps = <<>>
          /\ traces[i].applicationName = NoStr

\* C20 (SpecDuration): updateStep at time t giving a terminal status to a step
\* without a duration sets the duration to t minus the step's own timestamp
\* (not the trace's startTime); the timestamp stays; an update without a
\* status, or with a status that is not terminal, leaves the duration as it
\* was.
C20_DurationFromStep ==
    [][\A s \in StepSessions, u \in TimedArgs :
          (UpdateStep(s, "nexlayer_deploy", u) /\ Has(traces, s) /\ StepsOf(s) # <<>>) =>
             LET last == Len(StepsOf(s))
                 old == StepsOf(s)[last]
                 new == TraceOf(s)'.steps[last]
             IN /\ new.timestamp = old.timestamp
                /\ (u.status \in TerminalStatus /\ old.duration = NoNum)
                      => new.duration = now - getTime(old.timestamp)
                /\ u.status \notin TerminalStatus => new.duration = old.duration]_vars

\* a step added after its trace had started carries a duration, which is
\* not the time since the trace's start
C20_Witness ==
    \E i \in 1..Len(traces) : \E k \in 1..Len(traces[i].steps) :
        LET step == traces[i].steps[k]
        IN /\ step.status \in TerminalStatus
           /\ step.duration # NoNum
           /\ getTime(step.timestamp) > StartOf(traces[i])
           /\ getTime(step.timestamp) + step.duration = now

Min(a, b) == IF a < b THEN a ELSE b
\* the limits asked for: none, some, all and more than all
Limits == 0..(MAX_TRACES + 1)

\* C21 (SpecEvict): for every limit n, getTraceSummaries(n) has
\* min(n, number of stored traces) entries, and its i-th entry carries the
\* sessionId of the i-th trace of getRecentTraces(n).
C21_SummariesFollowRecent ==
    \A n \in Limits :
        LET summaries == getTraceSummaries(traces, n)
            recent == getRecentTraces(traces, n)
        IN /\ Len(summaries) = Min(n, Len(traces))
           /\ \A i \in 1..Len(summaries) :
                 summaries[i].sessionId = recent[i].sessionId

\* a full store whose newest trace was stored last: the first summary is
\* that of the last entry of the store
C21_Witness ==
    /\ Len(traces) = MAX_TRACES
    /\ StartOf(traces[1]) < StartOf(traces[MAX_TRACES])
    /\ getTraceSummaries(traces, 1)[1].sessionId = traces[MAX_TRACES].sessionId
    /\ Len(getTraceSummaries(traces, MAX_TRACES + 1)) = MAX_TRACES

\* C22 (SpecEvict): getRecentTraces(n) returns min(n, number of stored
\* traces) stored traces, each once, in non-increasing startTime order, and
\* none of them started before a stored trace that is not returned.
C22_RecentFirst ==
    \A n \in Limits :
        LET recent == getRecentTraces(traces, n)
            returned == {recent[i].sessionId : i \in 1..Len(recent)}
        IN /\ Len(recent) = Min(n, Len(traces))
           /\ Cardinality(returned) = Len(recent)
           /\ \A i \in 1..Len(recent) : recent[i] \in Range(traces)
           /\ \A i, j \in 1..Len(recent) :
                 i < j => StartOf(recent[i]) >= StartOf(recent[j])
           /\ \A i \in 1..Len(recent), k \in 1..Len(traces) :
                 traces[k].sessionId \notin returned
                    => StartOf(recent[i]) >= StartOf(traces[k])

\* a full store whose first entry is its newest trace (it was started
\* anew): the order returned is not the reverse of the store's order
C22_Witness ==
    /\ Len(traces) = MAX_TRACES
    /\ \A k \in 2..Len(traces) : StartOf(traces[1]) > StartOf(traces[k])
    /\ getRecentTraces(traces, 1) = <<traces[1]>>
    /\ getRecentTraces(traces, 0) = <<>>

\* C23 (SpecQuery): getTrace, getTraceSummary, getRecentTraces and
\* getTraceSummaries leave the store as it was, whatever they return, and
\* throw nothing; getTrace and getTraceSummary for an identifier without a
\* stored trace return the absent value.
C23_QueriesReadOnly ==
    [][/\ \A s \in Sessions :
             (answer'.call = "getTrace" /\ GetTrace(s)) =>
                /\ traces' = traces /\ ~threw'
                /\ ~Has(traces, s) => answer'.value = <<>>
       /\ \A s \in Sessions :
             (answer'.call = "getTraceSummary" /\ GetTraceSummary(s)) =>
                /\ traces' = traces /\ ~threw'
                /\ ~Has(traces, s) => answer'.value = <<>>
       /\ \A n \in QueryLimits :
             (answer'.call = "getRecentTraces" /\ GetRecentTraces(n)) =>
                (traces' = traces /\ ~threw')
       /\ \A n \in QueryLimits :
             (answer'.call = "getTraceSummaries" /\ GetTraceSummaries(n)) =>
                (traces' = traces /\ ~threw')]_vars

\* getRecentTraces has just returned the whole of a full store, newest
\* first, and the store still holds its traces oldest first
C23_Witness ==
    /\ answer.call = "getRecentTraces"
    /\ Len(answer.value) = MAX_TRACES /\ Len(traces) = MAX_TRACES
    /\ answer.value[1] = traces[MAX_TRACES]
    /\ StartOf(traces[1]) < StartOf(traces[MAX_TRACES])

\* C24 (SpecMeta): addStep, updateStep and completeTrace on a stored trace
\* keep the trace stored and leave its sessionId, startTime, repoUrl and
\* metadata as startTrace set them.
C24_IdentityKept ==
    [][\A s \in StepSessions :
          (Has(traces, s) /\ (MetaUpdate(s) \/ MetaComplete(s)
                                \/ \E st \in {"in_progress", "failed"} : MetaAdd(s, st))) =>
             /\ Has(traces', s)
             /\ TraceOf(s)'.sessionId = TraceOf(s).sessionId
             /\ TraceOf(s)'.startTime = TraceOf(s).startTime
             /\ TraceOf(s)'.repoUrl = TraceOf(s).repoUrl
             /\ TraceOf(s)'.metadata = TraceOf(s).metadata]_vars

\* a trace started with a repository URL and metadata has had a failed
\* step added and updated, and was completed after the clock moved on
C24_Witness ==
    \E i \in 1..Len(traces) :
        /\ traces[i].repoUrl # NoStr
        /\ traces[i].metadata # NoMeta
        /\ traces[i].status = "success"
        /\ traces[i].applicationName = "test-app"
        /\ Len(traces[i].steps) = 1 /\ traces[i].steps[1].status = "success"
        /\ traces[i].totalDuration > 0

\* the trace of a handler that has run to its end: one nexlayer_deploy step
\* with a duration, in the trace's status; completeTrace called once
DeployedAs(trace, status, completes) ==
    /\ trace.status = status
    /\ Len(trace.steps) = 1
    /\ trace.steps[1].tool = "nexlayer_deploy"
    /\ trace.steps[1].status = status
    /\ trace.steps[1].duration # NoNum
    /\ completes = 1

C28_WrapperOrder ==
    /\ [](\A i \in Invocations :
            /\ inv[i].pc = "idle" => inv[i].logs = <<>> /\ inv[i].result = "none"
            /\ inv[i].pc = "awaiting" => inv[i].logs = <<Started>> /\ inv[i].result = "none"
            /\ inv[i].pc = "returned" =>
                   inv[i].logs = <<Started, Completed>> /\ inv[i].result # "throw"
            /\ inv[i].pc = "thrown" =>
                   inv[i].logs = <<Started, Failed>> /\ inv[i].result = "throw")
    /\ [][\A i \in Invocations :
             /\ \A app \in AppNames :
                   PlatformReturns(i, app) =>
                      inv'[i].result =
                         DeployAfterPlatform(traces, inv[i].sessionId, app, now).outcome
             /\ PlatformRaises(i) =>
                   inv'[i].result = DeployCatch(traces, inv[i].sessionId, now).outcome
             /\ inv[i].logs = <<>> /\ inv'[i].logs # <<>> => inv'[i].logs[1] = Started]_vars

\* one invocation has returned a text and another has thrown, each after
\* its platform call
C28_Witness ==
    \E i, j \in Invocations :
        /\ inv[i].pc = "returned" /\ inv[i].result = "Deployment Successful"
        /\ inv[j].pc = "thrown" /\ inv[j].logs = <<Started, Failed>>

\* C29 (Spec): a stored trace has endTime and totalDuration exactly when
\* its status is 'success' or 'failed' and has neither exactly when it is
\* 'in_progress'; no trace is ever 'pending'; a trace becomes 'success' only
\* in a call completeTrace(s, 'success').
C29_StampsMatchStatus ==
    /\ [](\A i \in 1..Len(traces) :
            LET trace == traces[i]
            IN /\ trace.status \in {"in_progress", "success", "failed"}
               /\ trace.status \in {"success", "failed"} <=>
                      (trace.endTime # NoTime /\ trace.totalDuration # NoNum)
               /\ trace.status = "in_progress" <=>
                      (trace.endTime = NoTime /\ trace.totalDuration = NoNum))
    /\ [][\A s \in Sessions :
             (/\ Has(traces', s)
              /\ MapGet(traces', s).status = "success"
              /\ ~(Has(traces, s) /\ TraceOf(s).status = "success")) =>
                \E app \in AppNames \cup {NoStr} : CompleteTrace(s, "success", app)]_vars

\* a trace failed by a step, stamped, and later completed as a success
C29_Witness ==
    \E s \in Sessions :
        /\ Has(traces, s)
        /\ TraceOf(s).status = "success"
        /\ TraceOf(s).endTime # NoTime
        /\ HasFailedStep(TraceOf(s))
        /\ hist[s].lastEvent = "completeSuccess"

\* C30 as stated (Spec): whenever a stored trace's status is 'failed',
\* getTraceSummary for it returns status 'failed'.
C30_FailedTraceFailedSummary ==
    \A i \in 1..Len(traces) :
        traces[i].status = "failed" =>
           getTraceSummary(traces, traces[i].sessionId).status = "failed"

\* C30 amended (Spec): for a stored trace whose status is 'failed',
\* getTraceSummary returns status 'failed' when one of the trace's steps is
\* 'failed' now, and status 'success' when none is.
C30_FailedSummaryNeedsFailedStep ==
    \A i \in 1..Len(traces) :
        traces[i].status = "failed" =>
           getTraceSummary(traces, traces[i].sessionId).status =
              IF HasFailedStep(traces[i]) THEN "failed" ELSE "success"

\* a trace failed by its only failed step, the step later moved to
\* 'success' by updateStep, never completed: the summary says 'success'
C30_Witness ==
    \E i \in 1..Len(traces) :
        /\ traces[i].status = "failed"
        /\ hist[traces[i].sessionId].completed = "none"
        /\ hist[traces[i].sessionId].lastEvent = "addStepFailed"
        /\ Len(traces[i].steps) = 1
        /\ traces[i].steps[1].status = "success"
        /\ getTraceSummary(traces, traces[i].sessionId).status = "success"

\* the lines written below 'critical' in the 60 seconds that start at t
WrittenInSpan(t) ==
    {k \in 1..Len(logger.written) :
        t <= logger.written[k] /\ logger.written[k] < t + RATE_LIMIT_WINDOW}

\* C26 (SpecLogRate): in any span of 60 seconds the logger writes at most
\* RATE_LIMIT lines of a level below 'critical'.
C26_LimitPerSpan ==
    \A k \in 1..Len(logger.written) :
        Cardinality(WrittenInSpan(logger.written[k])) <= RATE_LIMIT

\* the key is, or contains, one of the five names, in any letter case
NamesSensitive(key) ==
    \E k \in 1..Len(sensitiveKeys) :
        includes(toLowerCase(key), toLowerCase(sensitiveKeys[k]))

\* C27 (SpecLogData): in every line written, each data entry whose key is
\* or contains sessionToken, apiKey, password, secret or token, in any
\* letter case, shows a string longer than 8 characters as its first 3 and
\* last 3 characters and any other value as '[REDACTED]'.
C27_SensitiveHidden ==
    \A n \in 1..Len(logger.out) :
        \A k \in 1..Len(logger.out[n].given) :
            NamesSensitive(logger.out[n].given[k].key) =>
               logger.out[n].data[k].value = Redact(logger.out[n].given[k].value)

\* C31 (SpecDeploy): with invocations that overlap under one session
\* identifier, no stored trace has status 'success' while one of its steps
\* carries the error text recorded by an invocation that failed.
C31_NoForeignError ==
    \A i \in 1..Len(traces) :
        traces[i].status = "success" =>
           \A k \in 1..Len(traces[i].steps) : traces[i].steps[k].error = NoStr

\* status, endTime and totalDuration of the trace of sessionId are the same
\* before and after the step
SameStamps(sessionId) ==
    /\ Has(traces', sessionId)
    /\ MapGet(traces', sessionId).status = TraceOf(sessionId).status
    /\ MapGet(traces', sessionId).endTime = TraceOf(sessionId).endTime
    /\ MapGet(traces', sessionId).totalDuration = TraceOf(sessionId).totalDuration

\* the step appended one step of the tool, in the status given, to the
\* trace of sessionId
AppendedStep(sessionId, tool, status) ==
    LET after == MapGet(traces', sessionId).steps
    IN /\ Len(after) = Len(StepsOf(sessionId)) + 1
       /\ SubSeq(after, 1, Len(StepsOf(sessionId))) = StepsOf(sessionId)
       /\ after[Len(after)].tool = tool
       /\ after[Len(after)].status = status

\* completeTrace has returned for the trace now stored under sessionId
WasCompleted(sessionId) == Has(traces, sessionId) /\ hist[sessionId].completed # "none"

\* C32 as stated (SpecFinal): once completeTrace(s, st) has returned, no
\* addStep and no updateStep on s changes the trace's status, endTime or
\* totalDuration, and addStep still appends its step.
C32_CompletionFinal ==
    [][\A s \in StepSessions :
          WasCompleted(s) =>
             /\ \A st \in AddStatus :
                   AddStep(s, "nexlayer_deploy", st, NoFields) =>
                      SameStamps(s) /\ AppendedStep(s, "nexlayer_deploy", st)
             /\ \A st \in {"success", "failed"} :
                   UpdateStep(s, "nexlayer_deploy", [NoFields EXCEPT !.status = st]) =>
                      SameStamps(s)]_vars

\* C32 amended (SpecFinal): once completeTrace(s, st) has returned, no
\* updateStep on s and no addStep on s with a status other than 'failed'
\* changes the trace's status, endTime or totalDuration; addStep(s, ..,
\* 'failed') sets the status to 'failed' and stamps endTime and
\* totalDuration again at the time of the call; every addStep on the
\* completed trace appends its step.
C32_FinalButFailedStep ==
    [][\A s \in StepSessions :
          WasCompleted(s) =>
             /\ \A st \in AddStatus :
                   AddStep(s, "nexlayer_deploy", st, NoFields) =>
                      /\ AppendedStep(s, "nexlayer_deploy", st)
                      /\ IF st = "failed"
                         THEN /\ MapGet(traces', s).status = "failed"
                              /\ getTime(MapGet(traces', s).endTime) = now
                              /\ MapGet(traces', s).totalDuration =
                                    now - StartOf(TraceOf(s))
                         ELSE SameStamps(s)
             /\ \A st \in {"success", "failed"} :
                   UpdateStep(s, "nexlayer_deploy", [NoFields EXCEPT !.status = st]) =>
                      SameStamps(s)]_vars

\* a trace completed as 'success' and then failed by a step added a
\* millisecond later: the step is there, the stamps are those of the step
C32_Witness ==
    \E s \in StepSessions :
        /\ Has(traces, s)
        /\ hist[s].completed = "success"
        /\ hist[s].lastEvent = "addStepFailed"
        /\ TraceOf(s).status = "failed"
        /\ TraceOf(s).totalDuration = 1
        /\ Len(TraceOf(s).steps) = 1

\* the window of the logger is open: a log call has started it and its
\* reset time has not passed
WindowOpen == logger.rateLimit # <<>> /\ now <= logger.rateLimit[1].resetTime

\* the log calls counted so far in the open window
Counted == IF WindowOpen THEN logger.rateLimit[1].count ELSE 0

\* C33 (SpecLogRate): a call of level critical is written whatever the
\* limiter's state; a call of a lower level is dropped exactly when the
\* open window has counted RATE_LIMIT calls; a call made with no open
\* window opens one of 60 seconds and is its first counted call; a call
\* made under the limit, critical or not, adds one to the count; a call
\* made at the limit leaves the count alone.
C33_WindowAndBypass ==
    /\ [](logger.rateLimit # <<>> =>
            logger.rateLimit[1].count \in 1..RATE_LIMIT)
    /\ [][\A level \in LogLevels :
             Log(level, <<>>) =>
                /\ level \in AlwaysWritten => logger'.wrote
                /\ level \notin AlwaysWritten =>
                      (logger'.wrote <=> Counted < RATE_LIMIT)
                /\ logger'.rateLimit[1] =
                      IF ~WindowOpen
                      THEN [count |-> 1, resetTime |-> now + RATE_LIMIT_WINDOW]
                      ELSE [count |-> IF Counted < RATE_LIMIT
                                      THEN Counted + 1 ELSE Counted,
                            resetTime |-> logger.rateLimit[1].resetTime]]_vars

\* at the reset time of the first window, with the quota used up by lines
\* below 'critical', a critical line has been written
C33_Witness ==
    /\ logger.rateLimit # <<>>
    /\ now = logger.rateLimit[1].resetTime
    /\ logger.rateLimit[1].count = RATE_LIMIT
    /\ Len(logger.written) = RATE_LIMIT
    /\ logger.wrote
    /\ logger.out[1].level = "critical"

\* what the callback of an event resolves the promise with
OutcomeOf(e) ==
    IF e.event = "timeout" THEN TimedOut
    ELSE IF e.event = "error" THEN SpawnFailed
    ELSE CloseResult(e.code, e.stdout)

====
